---- MODULE Spec2Model ----
(***************************************************************************)
(* The smart network request sanitizer of @sonarly/session-replay          *)
(* (packages/session-replay/src/main/modules/tabs.ts, lines 15-382).       *)
(*                                                                         *)
(* A sanitizer is a closure over a config object built once by             *)
(* createSmartSanitizer; each call classifies one RequestResponseData      *)
(* record and returns either that record (kept) or null (dropped).         *)
(* The only state that survives a call is the config object captured by    *)
(* the closure, which holds the RegExp objects of apiPatterns and with     *)
(* them their lastIndex.                                                   *)
(*                                                                         *)
(* JavaScript strings are TLA+ strings; Len, SubSeq, Tail and \o act on    *)
(* them character by character.                                            *)
(***************************************************************************)
EXTENDS Integers, Sequences, FiniteSets, TLC

VARIABLES
    window,     \* the page environment: [defined, hostname]
    sanitizer,  \* how the closure was built: [builder, options]
    config,     \* the config object the closure captured (tabs.ts:225-233)
    passed,     \* the event as the caller built it, before the current call
    data,       \* the fields of that same event object after the call
    result,     \* what the current call did: [outcome, value]
    caller,     \* which caller made the current call (0: none yet)
    consoleOptions,   \* console.ts: options (console.ts:182-189)
    lastLogLevel,     \* console.ts:196
    lastLogMessage,   \* console.ts:197
    duplicateCount,   \* console.ts:198
    consoleN,         \* console.ts: n (console.ts:243), the calls since the last reset
    active,           \* the app is between a start and a stop
    calls,            \* the console calls handed to sendConsoleLog and the flushes, in order
    sent,             \* the messages handed to app.send, in order
    documentURL,      \* document.URL
    pageUrl,          \* part_004: url (part_004:6), the URL last reported
    referrer,         \* part_004:8
    navigationStart,  \* part_004:7
    historyWrappers,  \* how many wrappers lie around history.pushState and replaceState
    popstateListeners,\* how many popstate listeners the start callbacks attached
    sessionStarts     \* the number of messages sent before each start callback

sanitizerVars == <<window, sanitizer, config, passed, data, result, caller>>
consoleVars == <<consoleOptions, lastLogLevel, lastLogMessage, duplicateCount, consoleN, calls>>
pageVars == <<documentURL, pageUrl, referrer, navigationStart, historyWrappers,
              popstateListeners, sessionStarts>>
vars == <<sanitizerVars, consoleVars, pageVars, active, sent>>

(***************************************************************************)
(* JavaScript values that a field of an event can hold.                    *)
(***************************************************************************)
Str(s) == [t |-> "string", s |-> s, n |-> 0]
Num(n) == [t |-> "number", s |-> "", n |-> n]
NaN == [t |-> "NaN", s |-> "", n |-> 0]
Undefined == [t |-> "undefined", s |-> "", n |-> 0]
Null == [t |-> "null", s |-> "", n |-> 0]

\* ToNumber on the values above: undefined becomes NaN.
ToNumber(v) == IF v.t = "number" THEN v ELSE NaN

\* a >= b and a > b on numbers: every comparison with NaN is false.
JsGe(a, b) ==
    LET x == ToNumber(a)
        y == ToNumber(b)
    IN  x.t = "number" /\ y.t = "number" /\ x.n >= y.n

JsGt(a, b) ==
    LET x == ToNumber(a)
        y == ToNumber(b)
    IN  x.t = "number" /\ y.t = "number" /\ x.n > y.n

(***************************************************************************)
(* String.prototype methods used by the sanitizer.                         *)
(***************************************************************************)
UpperLetters == "ABCDEFGHIJKLMNOPQRSTUVWXYZ"
LowerLetters == "abcdefghijklmnopqrstuvwxyz"
DecimalDigits == "0123456789"

CharAt(s, i) == SubSeq(s, i, i)

\* The lower-case letter of every upper-case letter.
LowerCaseOf ==
    [c \in {CharAt(UpperLetters, k) : k \in 1..Len(UpperLetters)} |->
        CharAt(LowerLetters, CHOOSE k \in 1..Len(UpperLetters) : CharAt(UpperLetters, k) = c)]

LowerChar(c) == IF c \in DOMAIN LowerCaseOf THEN LowerCaseOf[c] ELSE c

RECURSIVE toLowerCase(_)
toLowerCase(s) ==
    IF s = "" THEN "" ELSE LowerChar(CharAt(s, 1)) \o toLowerCase(Tail(s))

\* s.includes(t)
Includes(s, t) ==
    \/ t = ""
    \/ \E i \in 1..(Len(s) - Len(t) + 1) : SubSeq(s, i, i + Len(t) - 1) = t

\* s.endsWith(t)
EndsWith(s, t) ==
    \/ t = ""
    \/ Len(t) <= Len(s) /\ SubSeq(s, Len(s) - Len(t) + 1, Len(s)) = t

\* s.startsWith(t)
StartsWith(s, t) ==
    \/ t = ""
    \/ Len(t) <= Len(s) /\ SubSeq(s, 1, Len(t)) = t

\* The part of s before the first character that belongs to stops.
RECURSIVE UpTo(_, _)
UpTo(s, stops) ==
    IF s = "" \/ CharAt(s, 1) \in stops THEN "" ELSE CharAt(s, 1) \o UpTo(Tail(s), stops)

\* The part of s after its last occurrence of the character c (s when c is absent).
AfterLast(s, c) ==
    LET at == {i \in 1..Len(s) : CharAt(s, i) = c}
    IN  IF at = {} THEN s
        ELSE LET m == CHOOSE i \in at : \A j \in at : j <= i
             IN  IF m = Len(s) THEN "" ELSE SubSeq(s, m + 1, Len(s))

(***************************************************************************)
(* parseInt(s, 10): leading white space, an optional sign, then the        *)
(* longest run of decimal digits; NaN when there is no digit.              *)
(***************************************************************************)
IsDigit(c) == \E k \in 1..Len(DecimalDigits) : CharAt(DecimalDigits, k) = c

DigitValue(c) == (CHOOSE k \in 1..Len(DecimalDigits) : CharAt(DecimalDigits, k) = c) - 1

RECURSIVE TrimStart(_)
TrimStart(s) ==
    IF s # "" /\ CharAt(s, 1) \in {" ", "\t", "\n", "\r"} THEN TrimStart(Tail(s)) ELSE s

RECURSIVE DigitsValue(_, _)
DigitsValue(s, acc) ==
    IF s = "" \/ ~IsDigit(CharAt(s, 1)) THEN acc
    ELSE DigitsValue(Tail(s), acc * 10 + DigitValue(CharAt(s, 1)))

parseInt(s) ==
    LET t == TrimStart(s)
        signed == t # "" /\ CharAt(t, 1) \in {"+", "-"}
        digits == IF signed THEN Tail(t) ELSE t
        magnitude == DigitsValue(digits, 0)
    IN  IF digits = "" \/ ~IsDigit(CharAt(digits, 1)) THEN NaN
        ELSE IF signed /\ CharAt(t, 1) = "-" THEN Num(0 - magnitude)
        ELSE Num(magnitude)

(***************************************************************************)
(* RegExp objects.  The source is a sequence of atoms: a one-character     *)
(* string matches that character, "\\d+" matches one or more decimal       *)
(* digits, greedily and with backtracking.  A RegExp with the g flag keeps *)
(* lastIndex between calls of test(): the search starts there, a match     *)
(* moves it to the end of the match and a failure resets it to 0.          *)
(***************************************************************************)
StringPattern(s) == [type |-> "string", source |-> s]
RegExp(atoms, g) == [type |-> "regexp", source |-> atoms, global |-> g, lastIndex |-> 0]

DigitRun == "\\d+"

RECURSIVE CountDigits(_, _)
CountDigits(s, p) ==
    IF p < Len(s) /\ IsDigit(CharAt(s, p + 1)) THEN 1 + CountDigits(s, p + 1) ELSE 0

\* The end of the match of atoms[k..] against s at offset p, or -1.
RECURSIVE MatchHere(_, _, _, _)
MatchHere(atoms, k, s, p) ==
    IF k > Len(atoms) THEN p
    ELSE IF atoms[k] = DigitRun
    THEN LET ok == {n \in 1..CountDigits(s, p) : MatchHere(atoms, k + 1, s, p + n) # -1}
         IN  IF ok = {} THEN -1
             ELSE MatchHere(atoms, k + 1, s, p + (CHOOSE n \in ok : \A m \in ok : m <= n))
    ELSE IF p < Len(s) /\ CharAt(s, p + 1) = atoms[k]
    THEN MatchHere(atoms, k + 1, s, p + 1)
    ELSE -1

\* RegExp.prototype.test: [matched, lastIndex after the call].
RegExpTest(re, s) ==
    LET from == IF re.global THEN re.lastIndex ELSE 0
        hits == {i \in from..Len(s) : MatchHere(re.source, 1, s, i) # -1}
        first == CHOOSE i \in hits : \A j \in hits : i <= j
    IN  IF hits = {}
        THEN [matched |-> FALSE, lastIndex |-> IF re.global THEN 0 ELSE re.lastIndex]
        ELSE [matched |-> TRUE,
              lastIndex |-> IF re.global THEN MatchHere(re.source, 1, s, first)
                                         ELSE re.lastIndex]

(***************************************************************************)
(* matchesPattern (tabs.ts:174-182).  patterns.some stops at the first     *)
(* pattern that matches, so the RegExp objects after it are not touched.   *)
(* The value is [found, patterns]: the answer and the pattern objects as   *)
(* the call leaves them.                                                   *)
(***************************************************************************)
RECURSIVE matchesPatternFrom(_, _, _, _)
matchesPatternFrom(url, lowerUrl, patterns, k) ==
    IF k > Len(patterns) THEN [found |-> FALSE, patterns |-> patterns]
    ELSE IF patterns[k].type = "string"
    THEN IF Includes(lowerUrl, toLowerCase(patterns[k].source))
         THEN [found |-> TRUE, patterns |-> patterns]
         ELSE matchesPatternFrom(url, lowerUrl, patterns, k + 1)
    ELSE LET r == RegExpTest(patterns[k], url)
             after == [patterns EXCEPT ![k].lastIndex = r.lastIndex]
         IN  IF r.matched THEN [found |-> TRUE, patterns |-> after]
             ELSE matchesPatternFrom(url, lowerUrl, after, k + 1)

matchesPattern(url, patterns) == matchesPatternFrom(url, toLowerCase(url), patterns, 1)

(***************************************************************************)
(* getHostname (tabs.ts:187-193): new URL(url).hostname, and '' when the   *)
(* URL constructor throws.  Without a base, the constructor throws for a   *)
(* string that has no scheme; for http and https it lower-cases the host   *)
(* and drops the user info and the port.                                   *)
(***************************************************************************)
UrlScheme(url) ==
    LET head == toLowerCase(IF Len(url) > 8 THEN SubSeq(url, 1, 8) ELSE url)
    IN  IF StartsWith(head, "https://") THEN "https://"
        ELSE IF StartsWith(head, "http://") THEN "http://"
        ELSE ""

\* getHostname reading a URL without scheme as host/path instead of giving ''.
getHostname_schemeless(url) ==
    LET scheme == UrlScheme(url)
        rest == IF Len(url) > Len(scheme) THEN SubSeq(url, Len(scheme) + 1, Len(url)) ELSE ""
        authority == UpTo(rest, {"/", "?", "#"})
        hostport == AfterLast(authority, "@")
    IN  toLowerCase(UpTo(hostport, {":"}))

getHostname(url) ==
    LET scheme == UrlScheme(url)
        rest == IF Len(url) > Len(scheme) THEN SubSeq(url, Len(scheme) + 1, Len(url)) ELSE ""
        authority == UpTo(rest, {"/", "?", "#"})
        hostport == AfterLast(authority, "@")
    IN  IF scheme = "" THEN "" ELSE toLowerCase(UpTo(hostport, {":"}))

\* isStaticResource with every written for some.
isStaticResource_every(url, extensions) ==
    LET lowerUrl == toLowerCase(url)
    IN  \A k \in 1..Len(extensions) : EndsWith(lowerUrl, extensions[k])

(***************************************************************************)
(* isStaticResource (tabs.ts:198-201).                                     *)
(***************************************************************************)
isStaticResource(url, extensions) ==
    LET lowerUrl == toLowerCase(url)
    IN  \E k \in 1..Len(extensions) : EndsWith(lowerUrl, extensions[k])

(***************************************************************************)
(* The default lists (tabs.ts:77-169).                                     *)
(***************************************************************************)
DEFAULT_IGNORED_DOMAINS ==
    << "google-analytics.com", "googletagmanager.com", "analytics.google.com",
       "doubleclick.net", "googlesyndication.com",
       "facebook.com/tr", "facebook.net", "connect.facebook.net",
       "twitter.com/i/jot", "linkedin.com/px", "pinterest.com/ct",
       "segment.com", "segment.io", "mparticle.com",
       "hotjar.com", "mouseflow.com", "smartlook.com", "fullstory.com",
       "logrocket.com" >>

DEFAULT_IGNORED_EXTENSIONS ==
    << ".js", ".mjs", ".cjs",
       ".css", ".scss", ".sass", ".less",
       ".png", ".jpg", ".jpeg", ".gif", ".svg", ".webp", ".avif", ".ico", ".bmp",
       ".woff", ".woff2", ".ttf", ".eot", ".otf",
       ".mp4", ".webm", ".ogg", ".mp3", ".wav",
       ".pdf", ".zip", ".tar", ".gz" >>

DEFAULT_API_PATTERNS ==
    << StringPattern("/api/"), StringPattern("/graphql"), StringPattern("/v1/"),
       StringPattern("/v2/"), StringPattern("/v3/"), StringPattern("/rest/"),
       StringPattern("/rpc/") >>

DEFAULT_SLOW_REQUEST_THRESHOLD == 2000
DEFAULT_ERROR_STATUS_THRESHOLD == 400

(***************************************************************************)
(* Custom filters: the caller's functions from an event to a boolean.      *)
(*   includes(arg):  (data) => data.url.includes(arg)                      *)
(*   excludes(arg):  (data) => !data.url.includes(arg)                     *)
(*   throws:         () => { throw new Error() }                           *)
(*   ignores(ps):    (data) => !matchesPattern(data.url, ps)               *)
(* The last one is the filter createCustomSanitizer derives from           *)
(* ignore.patterns (tabs.ts:378-380); it closes over the pattern objects,  *)
(* so the filter object carries them.                                      *)
(* NoFilter is the undefined of an options object without customFilter.    *)
(***************************************************************************)
NoFilter == [kind |-> "undefined", arg |-> ""]
FilterIncludes(arg) == [kind |-> "includes", arg |-> arg]
FilterExcludes(arg) == [kind |-> "excludes", arg |-> arg]
FilterThrows == [kind |-> "throws", arg |-> ""]
FilterIgnores(patterns) == [kind |-> "ignores", arg |-> "", patterns |-> patterns]

\* The outcome of filter(data): "true", "false" or "throw".
CallFilter(filter, d) ==
    CASE filter.kind = "includes" -> IF Includes(d.url, filter.arg) THEN "true" ELSE "false"
      [] filter.kind = "excludes" -> IF Includes(d.url, filter.arg) THEN "false" ELSE "true"
      [] filter.kind = "throws" -> "throw"
      [] filter.kind = "ignores" ->
            IF matchesPattern(d.url, filter.patterns).found THEN "false" ELSE "true"

\* The filter object after filter(data): its RegExp patterns keep their lastIndex.
FilterAfter(filter, d) ==
    IF filter.kind = "ignores"
    THEN [filter EXCEPT !.patterns = matchesPattern(d.url, filter.patterns).patterns]
    ELSE filter

(***************************************************************************)
(* createSmartSanitizer, the config object (tabs.ts:225-233).  An options  *)
(* object is a record that holds only the fields the caller set; ?? takes  *)
(* the default for a field that is not set.                                *)
(***************************************************************************)
NoOptions == [o \in {} |-> 0]

\* The default taken for an empty list as well as for an option that is not set.
Option_defaultForEmpty(options, field, default) ==
    IF field \notin DOMAIN options THEN default
    ELSE IF field \in {"ignoredDomains", "apiPatterns", "ignoredExtensions", "ownDomains"}
            /\ Len(options[field]) = 0
    THEN default
    ELSE options[field]

\* options.field ?? default
Option(options, field, default) ==
    IF field \in DOMAIN options THEN options[field] ELSE default

createConfig(options, win) ==
    [ slowRequestThreshold |->
          Option(options, "slowRequestThreshold", DEFAULT_SLOW_REQUEST_THRESHOLD),
      errorStatusThreshold |->
          Option(options, "errorStatusThreshold", DEFAULT_ERROR_STATUS_THRESHOLD),
      ignoredDomains |-> Option(options, "ignoredDomains", DEFAULT_IGNORED_DOMAINS),
      apiPatterns |-> Option(options, "apiPatterns", DEFAULT_API_PATTERNS),
      ignoredExtensions |-> Option(options, "ignoredExtensions", DEFAULT_IGNORED_EXTENSIONS),
      ownDomains |->
          Option(options, "ownDomains", IF win.defined THEN <<win.hostname>> ELSE <<>>),
      customFilter |-> Option(options, "customFilter", NoFilter) ]

(***************************************************************************)
(* smartSanitizer (tabs.ts:235-297), rule by rule.                         *)
(***************************************************************************)
\* Rule 1 with > written for >=.
failureRule_strictlyAbove(cfg, d) == JsGt(d.status, Num(cfg.errorStatusThreshold))

\* Rule 1 (tabs.ts:242).
failureRule(cfg, d) == JsGe(d.status, Num(cfg.errorStatusThreshold))

\* data.response?.headers?.['x-response-time'] (tabs.ts:248).
responseTimeHeader(d) ==
    IF d.response.t = "object" /\ "x-response-time" \in DOMAIN d.response.headers
    THEN Str(d.response.headers["x-response-time"])
    ELSE Undefined

\* The duration read from the request headers instead of the response headers.
requestDuration_fromRequest(d) ==
    IF "x-response-time" \in DOMAIN d.request.headers
    THEN parseInt(d.request.headers["x-response-time"])
    ELSE Num(0)

\* const duration (tabs.ts:248-250).
requestDuration(d) ==
    LET header == responseTimeHeader(d)
    IN  IF header.t = "string" THEN parseInt(header.s) ELSE Num(0)

\* Rule 2 without its duration > 0 guard.
slowRule_thresholdOnly(cfg, d) == JsGt(requestDuration(d), Num(cfg.slowRequestThreshold))

\* Rule 2 with >= written for the second >.
slowRule_inclusive(cfg, d) ==
    /\ JsGt(requestDuration(d), Num(0))
    /\ JsGe(requestDuration(d), Num(cfg.slowRequestThreshold))

\* Rule 2 (tabs.ts:252).
slowRule(cfg, d) ==
    /\ JsGt(requestDuration(d), Num(0))
    /\ JsGt(requestDuration(d), Num(cfg.slowRequestThreshold))

\* Rule 4 matching the hostname alone.
ignoredDomainRule_hostnameOnly(cfg, hostname, lowerUrl) ==
    \E k \in 1..Len(cfg.ignoredDomains) : Includes(hostname, cfg.ignoredDomains[k])

\* Rule 4 (tabs.ts:264).
ignoredDomainRule(cfg, hostname, lowerUrl) ==
    \E k \in 1..Len(cfg.ignoredDomains) :
        \/ Includes(hostname, cfg.ignoredDomains[k])
        \/ Includes(lowerUrl, cfg.ignoredDomains[k])

\* The upper-case letter of every lower-case letter.
UpperCaseOf ==
    [c \in {CharAt(LowerLetters, k) : k \in 1..Len(LowerLetters)} |->
        CharAt(UpperLetters, CHOOSE k \in 1..Len(LowerLetters) : CharAt(LowerLetters, k) = c)]

UpperChar(c) == IF c \in DOMAIN UpperCaseOf THEN UpperCaseOf[c] ELSE c

RECURSIVE toUpperCase(_)
toUpperCase(s) ==
    IF s = "" THEN "" ELSE UpperChar(CharAt(s, 1)) \o toUpperCase(Tail(s))

\* Rule 6 comparing the method as written, without upper-casing it.
mutationRule_asWritten(method) ==
    method # "GET" /\ method # "HEAD" /\ method # "OPTIONS" /\ method = toUpperCase(method)

\* Rule 6 (tabs.ts:275-276), for a method that is a string.
mutationRule(method) ==
    LET m == toUpperCase(method)
    IN  m # "GET" /\ m # "HEAD" /\ m # "OPTIONS"

\* Rule 7 (tabs.ts:282).
ownDomainRule(cfg, hostname) ==
    \E k \in 1..Len(cfg.ownDomains) : Includes(hostname, cfg.ownDomains[k])

(***************************************************************************)
(* What a call does: it returns data (the object it was given) or null, or *)
(* it throws.  rule is the rule that ended the call (9: the default), data *)
(* the fields of the event object and config the closure's config object   *)
(* when the call ends.                                                     *)
(***************************************************************************)
\* return { ...data } written for return data: the caller gets a copy.
ReturnData_copy(rule, d, cfg) ==
    [outcome |-> "return", value |-> "copy", rule |-> rule, data |-> d, config |-> cfg]

ReturnData(rule, d, cfg) ==
    [outcome |-> "return", value |-> "data", rule |-> rule, data |-> d, config |-> cfg]

ReturnNull(rule, d, cfg) ==
    [outcome |-> "return", value |-> "null", rule |-> rule, data |-> d, config |-> cfg]

Throw(error, rule, d, cfg) ==
    [outcome |-> "throw", value |-> error, rule |-> rule, data |-> d, config |-> cfg]

\* The chain with customFilter consulted before the capture rules 5 to 7: a
\* filter that returns false drops the event.
smartSanitizer_filterVeto(cfg, d) ==
    LET url == d.url
        lowerUrl == toLowerCase(url)
        hostname == getHostname(url)
        api == matchesPattern(url, cfg.apiPatterns)
        tested == [cfg EXCEPT !.apiPatterns = api.patterns]
        filtered == CallFilter(cfg.customFilter, d)
        consulted == [cfg EXCEPT !.customFilter = FilterAfter(cfg.customFilter, d)]
    IN  IF failureRule(cfg, d) THEN ReturnData(1, d, cfg)
        ELSE IF slowRule(cfg, d) THEN ReturnData(2, d, cfg)
        ELSE IF isStaticResource(url, cfg.ignoredExtensions) THEN ReturnNull(3, d, cfg)
        ELSE IF ignoredDomainRule(cfg, hostname, lowerUrl) THEN ReturnNull(4, d, cfg)
        ELSE IF cfg.customFilter.kind # "undefined" /\ filtered = "throw"
             THEN Throw("FilterError", 8, d, consulted)
        ELSE IF cfg.customFilter.kind # "undefined" /\ filtered = "false"
             THEN ReturnNull(8, d, consulted)
        ELSE IF api.found THEN ReturnData(5, d, tested)
        ELSE IF d.method.t # "string" THEN Throw("TypeError", 6, d, tested)
        ELSE IF mutationRule(d.method.s) THEN ReturnData(6, d, tested)
        ELSE IF ownDomainRule(cfg, hostname) THEN ReturnData(7, d, tested)
        ELSE IF cfg.customFilter.kind = "undefined" THEN ReturnNull(9, d, tested)
        ELSE ReturnData(8, d, tested)

smartSanitizer(cfg, d) ==
    LET url == d.url
        lowerUrl == toLowerCase(url)
        hostname == getHostname(url)
        api == matchesPattern(url, cfg.apiPatterns)
        tested == [cfg EXCEPT !.apiPatterns = api.patterns]
        filtered == CallFilter(cfg.customFilter, d)
        consulted == [tested EXCEPT !.customFilter = FilterAfter(cfg.customFilter, d)]
    IN  IF failureRule(cfg, d) THEN ReturnData(1, d, cfg)
        ELSE IF slowRule(cfg, d) THEN ReturnData(2, d, cfg)
        ELSE IF isStaticResource(url, cfg.ignoredExtensions) THEN ReturnNull(3, d, cfg)
        ELSE IF ignoredDomainRule(cfg, hostname, lowerUrl) THEN ReturnNull(4, d, cfg)
        ELSE IF api.found THEN ReturnData(5, d, tested)
        ELSE IF d.method.t # "string" THEN Throw("TypeError", 6, d, tested)
        ELSE IF mutationRule(d.method.s) THEN ReturnData(6, d, tested)
        ELSE IF ownDomainRule(cfg, hostname) THEN ReturnData(7, d, tested)
        ELSE IF cfg.customFilter.kind = "undefined" THEN ReturnNull(9, d, tested)
        ELSE IF filtered = "throw" THEN Throw("FilterError", 8, d, consulted)
        ELSE IF filtered = "true" THEN ReturnData(8, d, consulted)
        ELSE ReturnNull(9, d, consulted)

(***************************************************************************)
(* SmartSanitizerPresets (tabs.ts:303-346): the options each preset hands  *)
(* to createSmartSanitizer.  debug builds no config: it returns its        *)
(* argument.                                                               *)
(***************************************************************************)
StrictOptions ==
    [slowRequestThreshold |-> 5000, errorStatusThreshold |-> 400, apiPatterns |-> <<>>]

\* balanced with the apiPatterns: [] of strict.
BalancedOptions_noApiPatterns ==
    [slowRequestThreshold |-> 2000, errorStatusThreshold |-> 400, apiPatterns |-> <<>>]

BalancedOptions == [slowRequestThreshold |-> 2000, errorStatusThreshold |-> 400]

\* verbose with the slowRequestThreshold of strict.
VerboseOptions_slowAsStrict ==
    [slowRequestThreshold |-> 5000, errorStatusThreshold |-> 400, ignoredDomains |-> <<>>]

\* verbose without its ignoredDomains: [].
VerboseOptions_defaultDomains == [slowRequestThreshold |-> 1000, errorStatusThreshold |-> 400]

VerboseOptions ==
    [slowRequestThreshold |-> 1000, errorStatusThreshold |-> 400, ignoredDomains |-> <<>>]

\* debug built on the default rule chain instead of the identity.
debugSanitizer_defaultChain(cfg, d) ==
    IF isStaticResource(d.url, DEFAULT_IGNORED_EXTENSIONS)
    THEN ReturnNull(3, d, cfg) ELSE ReturnData(0, d, cfg)

\* SmartSanitizerPresets.debug (tabs.ts:343-345).
debugSanitizer(cfg, d) == ReturnData(0, d, cfg)

(***************************************************************************)
(* createCustomSanitizer (tabs.ts:364-382).  An intent is a record that    *)
(* holds only the parts the caller wrote.  obj?.part is undefined when obj *)
(* or part is absent, and an option that is undefined is an option that is *)
(* not set, since ?? treats both alike.  An array, empty or not, is truthy,*)
(* so the filter exists whenever ignore.patterns does.                     *)
(***************************************************************************)
HasPart(intent, obj, part) == obj \in DOMAIN intent /\ part \in DOMAIN intent[obj]

\* One option of the options object: set when the part is present.
OptionFrom(intent, obj, part, field) ==
    IF HasPart(intent, obj, part) THEN field :> intent[obj][part] ELSE NoOptions

\* createCustomSanitizer taking ownDomains from ignore.domains.
createCustomSanitizerOptions_ownFromIgnore(intent) ==
    OptionFrom(intent, "ignore", "domains", "ownDomains")
    @@ OptionFrom(intent, "captureOnly", "patterns", "apiPatterns")
    @@ OptionFrom(intent, "ignore", "domains", "ignoredDomains")
    @@ (IF HasPart(intent, "ignore", "patterns")
        THEN "customFilter" :> FilterIgnores(intent.ignore.patterns) ELSE NoOptions)

\* The options createCustomSanitizer hands to createSmartSanitizer (tabs.ts:374-381).
createCustomSanitizerOptions(intent) ==
    OptionFrom(intent, "captureOnly", "domains", "ownDomains")
    @@ OptionFrom(intent, "captureOnly", "patterns", "apiPatterns")
    @@ OptionFrom(intent, "ignore", "domains", "ignoredDomains")
    @@ (IF HasPart(intent, "ignore", "patterns")
        THEN "customFilter" :> FilterIgnores(intent.ignore.patterns) ELSE NoOptions)

\* The options that reach createSmartSanitizer in a build.
OptionsOf(build) ==
    IF build.builder = "createCustomSanitizer"
    THEN createCustomSanitizerOptions(build.options) ELSE build.options

\* A call of the closure that builder made.
Invoke(builder, cfg, d) ==
    IF builder = "debug" THEN debugSanitizer(cfg, d) ELSE smartSanitizer(cfg, d)

(***************************************************************************)
(* The inputs.                                                             *)
(***************************************************************************)
NumCallers == 2
Callers == 1..NumCallers

\* window is undefined outside a browser (tabs.ts:231).
Windows ==
    { [defined |-> FALSE, hostname |-> ""],
      [defined |-> TRUE, hostname |-> "app.example.com"] }

\* /\/api\/v\d+\// (networkSanitizer.unit.test.ts:242)
VersionedApi == <<"/", "a", "p", "i", "/", "v", DigitRun, "/">>

SmartOptions ==
    { NoOptions,
      [ignoredDomains |-> <<"google-analytics.com">>],
      [ownDomains |-> <<"app.example.com">>, apiPatterns |-> <<>>],
      [ownDomains |-> <<"example.com">>],
      [apiPatterns |-> <<RegExp(VersionedApi, FALSE)>>],
      [apiPatterns |-> <<RegExp(VersionedApi, TRUE)>>],
      [customFilter |-> FilterIncludes("important")],
      [customFilter |-> FilterExcludes("ignore")],
      [apiPatterns |-> <<>>, ownDomains |-> <<>>, customFilter |-> FilterIncludes("capture")],
      [customFilter |-> FilterThrows],
      [slowRequestThreshold |-> 3000],
      [slowRequestThreshold |-> 2999],
      [slowRequestThreshold |-> -1],
      [errorStatusThreshold |-> 500],
      [errorStatusThreshold |-> 501],
      [ignoredExtensions |-> <<>>, ignoredDomains |-> <<>>] }

Builds ==
    [builder : {"createSmartSanitizer"}, options : SmartOptions]
    \cup { [builder |-> "strict", options |-> StrictOptions],
           [builder |-> "balanced", options |-> BalancedOptions],
           [builder |-> "verbose", options |-> VerboseOptions],
           [builder |-> "debug", options |-> NoOptions] }

\* The intents of the createCustomSanitizer tests and examples.  /\/debug/g is
\* a RegExp an intent may list among its patterns.
DebugPath == <<"/", "d", "e", "b", "u", "g">>

Intents ==
    { NoOptions,
      [captureOnly |-> [domains |-> <<"api.myapp.com", "backend.myapp.com">>]],
      [ignore |-> [domains |-> <<"cdn.myapp.com", "static.myapp.com">>]],
      [ignore |-> [patterns |-> <<StringPattern("/internal/"), StringPattern("/debug/")>>]],
      [captureOnly |-> [domains |-> <<"api.myapp.com", "backend.myapp.com">>,
                        patterns |-> <<StringPattern("/api/"), StringPattern("/graphql")>>],
       ignore |-> [domains |-> <<"cdn.myapp.com", "static.myapp.com">>]],
      [captureOnly |-> [domains |-> <<"api.myapp.com">>,
                        patterns |-> <<StringPattern("/api/v2/"), StringPattern("/graphql")>>],
       ignore |-> [patterns |-> <<StringPattern("/metrics"), StringPattern("/health"),
                                  StringPattern("/debug")>>]],
      [captureOnly |-> [domains |-> <<>>, patterns |-> <<>>]],
      [captureOnly |-> [patterns |-> <<>>], ignore |-> [patterns |-> <<>>]],
      [ignore |-> [patterns |-> <<RegExp(DebugPath, TRUE)>>]] }

CustomBuilds == [builder : {"createCustomSanitizer"}, options : Intents]

\* Sanitizers for URLs with query strings, upper-case letters or no scheme: the
\* default lists with an own domain, and a list of extensions written in both
\* letter cases.
EdgeOptions ==
    { [ownDomains |-> <<"api.myapp.com">>],
      [ignoredExtensions |-> <<".js", ".PNG">>],
      [ownDomains |-> <<"api.myapp.com">>, ignoredExtensions |-> <<".js", ".PNG">>] }

EdgeBuilds == [builder : {"createSmartSanitizer"}, options : EdgeOptions]

Urls ==
    { "https://api.example.com/test",
      "https://cdn.example.com/app.js",
      "https://www.google-analytics.com/collect",
      "https://www.facebook.com/tr",
      "https://external.com/data",
      "https://app.example.com/data",
      "https://example.com/important-data",
      "https://example.com/api/v42/users",
      "https://example.com/api/users",
      "/api/users",
      "not-a-valid-url" }

Methods == {Str("GET"), Str("post"), Undefined}

Statuses == {Num(200), Num(500), Undefined}

NoHeaders == [h \in {} |-> ""]

Responses ==
    { Undefined }
    \cup { [t |-> "object", headers |-> h, body |-> Null] :
             h \in { NoHeaders,
                     "x-response-time" :> "0",
                     "x-response-time" :> "3000",
                     "x-response-time" :> "6000ms" } }

Events ==
    [ url : Urls, method : Methods, status : Statuses,
      request : {[headers |-> NoHeaders, body |-> Null]},
      response : Responses ]

CustomUrls ==
    { "https://api.myapp.com/users",
      "https://backend.myapp.com/data",
      "https://external.com/data",
      "https://external.com/api/users",
      "https://static.myapp.com/page",
      "https://api.myapp.com/internal/metrics",
      "https://api.myapp.com/api/v2/debug",
      "https://external.com/debug/stats" }

CustomEvents ==
    [ url : CustomUrls, method : Methods, status : {Num(200), Num(500)},
      request : {[headers |-> NoHeaders, body |-> Null]},
      response : {r \in Responses :
                    r = Undefined \/ r.headers \in {NoHeaders, "x-response-time" :> "3000"}} ]

EdgeUrls ==
    { "https://cdn.example.com/app.js",
      "https://cdn.example.com/app.js?v=2",
      "https://api.myapp.com/download?file=app.js",
      "https://cdn.example.com/LOGO.PNG",
      "https://api.myapp.com/data",
      "https://api.myapp.com/api/redirect?to=facebook.net",
      "/api/users",
      "www.google-analytics.com/collect",
      "api.myapp.com/data" }

EdgeEvents ==
    [ url : EdgeUrls, method : Methods, status : {Num(200), Num(500)},
      request : {[headers |-> NoHeaders, body |-> Null]},
      response : {r \in Responses :
                    r = Undefined \/ r.headers \in {NoHeaders, "x-response-time" :> "3000"}} ]

\* The events a sanitizer is called with.
EventsFor(build) ==
    IF build.builder = "createCustomSanitizer" THEN CustomEvents
    ELSE IF build \in EdgeBuilds THEN EdgeEvents
    ELSE Events

\* No call is in progress: there is no event and no verdict.
NoEvent == [url |-> "", method |-> Undefined, status |-> Undefined,
            request |-> Undefined, response |-> Undefined]
NoResult == [outcome |-> "none", value |-> "none", rule |-> 0]

(***************************************************************************)
(* The state machine.                                                      *)
(***************************************************************************)
\* The state after builds has built one of its sanitizers.
(***************************************************************************)
(* console.ts.  The arguments of a console call are strings without a %    *)
(* placeholder, so printfLimited takes its plain branch (console.ts:152).  *)
(***************************************************************************)
\* printObject of a string (console.ts:77-78).
printObject(arg) == IF Len(arg) > 100 THEN SubSeq(arg, 1, 100) \o "..." ELSE arg

\* The loop of printfLimited from argument i on (console.ts:152-168).
RECURSIVE printfLimitedFrom(_, _, _, _)
printfLimitedFrom(args, i, res, maxLength) ==
    IF i > Len(args) \/ Len(res) >= maxLength THEN res
    ELSE LET separator == IF Len(res) > 0 THEN " " ELSE ""
             printed == printObject(args[i])
             remaining == maxLength - Len(res) - Len(separator)
         IN  IF Len(res) + Len(separator) + Len(printed) > maxLength
             THEN IF remaining > 0
                  THEN res \o separator \o SubSeq(printed, 1, remaining) ELSE res
             ELSE printfLimitedFrom(args, i + 1, res \o separator \o printed, maxLength)

printfLimited(args, maxLength) ==
    IF Len(args) = 0 THEN "" ELSE printfLimitedFrom(args, 1, "", maxLength)

\* args.join('')
RECURSIVE Join(_)
Join(args) == IF Len(args) = 0 THEN "" ELSE Head(args) \o Join(Tail(args))

\* The message sendConsoleLog makes of the arguments (console.ts:216-221).
formatMessage(args, maxLength) ==
    LET message == printfLimited(args, maxLength)
        kept == IF maxLength - 15 > 0 THEN maxLength - 15 ELSE 0
    IN  IF Len(message) = maxLength /\ Len(Join(args)) > maxLength
        THEN SubSeq(message, 1, kept) \o "...[truncated]" ELSE message

ConsoleLog(level, value) == [type |-> "ConsoleLog", level |-> level, value |-> value]

\* The closure variables of the console module: the last log, its count, and
\* the messages sent so far.
ConsoleState == [lastLogLevel |-> lastLogLevel, lastLogMessage |-> lastLogMessage,
                 duplicateCount |-> duplicateCount, sent |-> sent]

\* flushLastLog (console.ts:200-212): an empty string is falsy.
flushLastLog(st) ==
    IF st.lastLogMessage # ""
    THEN LET messageToSend ==
                 IF st.duplicateCount > 1
                 THEN "<nl>" \o ToString(st.duplicateCount) \o "</nl>" \o st.lastLogMessage
                 ELSE st.lastLogMessage
         IN  [lastLogLevel |-> "", lastLogMessage |-> "", duplicateCount |-> 0,
              sent |-> Append(st.sent, ConsoleLog(st.lastLogLevel, messageToSend))]
    ELSE st

\* sendConsoleLog (console.ts:214-236).
sendConsoleLog(st, level, args) ==
    LET message == formatMessage(args, consoleOptions.consoleMaxLength)
        flushed == flushLastLog(st)
    IN  IF level = st.lastLogLevel /\ message = st.lastLogMessage
        THEN [st EXCEPT !.duplicateCount = @ + 1]
        ELSE [flushed EXCEPT !.lastLogLevel = level, !.lastLogMessage = message,
                             !.duplicateCount = 1]

\* The options object: the defaults overridden by opts (console.ts:182-189).
DEFAULT_CONSOLE_OPTIONS == [consoleThrottling |-> 30, consoleMaxLength |-> 500]
ConsoleOptionsFrom(opts) == opts @@ DEFAULT_CONSOLE_OPTIONS

\* The opts an application passes: a low throttle, and a short maximal length.
ConsoleOpts ==
    { [consoleThrottling |-> 2],
      [consoleThrottling |-> 2, consoleMaxLength |-> 20] }

MaxConsoleCalls == 6

\* console.log(), console.log('a'), console.error('a'), console.log('b'), and
\* a call whose arguments exceed the short maximal length.
ConsoleCalls ==
    { [level |-> "log", args |-> <<>>],
      [level |-> "log", args |-> <<"a">>],
      [level |-> "error", args |-> <<"a">>],
      [level |-> "log", args |-> <<"request failed:", "timeout">>] }

\* One entry of calls: a call handed to sendConsoleLog, or a flush.
CallEntry(level, message) == [kind |-> "call", level |-> level, message |-> message]
FlushEntry == [kind |-> "flush", level |-> "", message |-> ""]

\* calls after a flush: one flush entry stands for any number of flushes.
Flushed(h) == IF Len(h) = 0 \/ h[Len(h)].kind = "flush" THEN h ELSE Append(h, FlushEntry)

\* The module after construction (console.ts:196-198, 243), the app not started.
ConsoleInstalled(optsSet) ==
    /\ consoleOptions \in {ConsoleOptionsFrom(opts) : opts \in optsSet}
    /\ lastLogLevel = ""
    /\ lastLogMessage = ""
    /\ duplicateCount = 0
    /\ consoleN = 0
    /\ calls = <<>>

\* The closure variables take the values of st.
ConsoleBecomes(st) ==
    /\ lastLogLevel' = st.lastLogLevel
    /\ lastLogMessage' = st.lastLogMessage
    /\ duplicateCount' = st.duplicateCount
    /\ sent' = st.sent

\* reset (console.ts:244-248).
reset ==
    /\ consoleN' = 0
    /\ ConsoleBecomes(flushLastLog(ConsoleState))
    /\ calls' = Flushed(calls)
    /\ UNCHANGED <<consoleOptions, sanitizerVars, pageVars>>

\* The start callback (console.ts:249).
ConsoleStart == ~active /\ active' = TRUE /\ reset

\* The ticker calls reset while the app runs (console.ts:250).
ConsoleTick == active /\ UNCHANGED active /\ reset

\* The proxy handler of a patched console method (console.ts:254-262).
ConsoleCall(call) ==
    /\ active
    /\ Len(calls) < MaxConsoleCalls
    /\ consoleN <= consoleOptions.consoleThrottling
    /\ consoleN' = consoleN + 1
    /\ IF consoleN + 1 > consoleOptions.consoleThrottling
       THEN UNCHANGED <<lastLogLevel, lastLogMessage, duplicateCount, sent, calls>>
       ELSE /\ ConsoleBecomes(sendConsoleLog(ConsoleState, call.level, call.args))
            /\ calls' = Append(calls, CallEntry(call.level,
                                   formatMessage(call.args, consoleOptions.consoleMaxLength)))
    /\ UNCHANGED <<consoleOptions, active, sanitizerVars, pageVars>>

\* The stop callback (console.ts:239-241).
ConsoleStop ==
    /\ active
    /\ active' = FALSE
    /\ ConsoleBecomes(flushLastLog(ConsoleState))
    /\ calls' = Flushed(calls)
    /\ UNCHANGED <<consoleOptions, consoleN, sanitizerVars, pageVars>>

(***************************************************************************)
(* The page-location module (src/unnamed/part_004).  Of the messages the   *)
(* module sends, SetPageLocation is modelled, without the document title.  *)
(***************************************************************************)
SetPageLocation(u, ref, navStart) ==
    [type |-> "SetPageLocation", url |-> u, referrer |-> ref, navigationStart |-> navStart]

\* The closure variables of the module and the messages sent so far.
PageState == [url |-> pageUrl, referrer |-> referrer,
              navigationStart |-> navigationStart, sent |-> sent]

\* sendSetPageLocation sending without comparing document.URL with url.
sendSetPageLocation_unconditional(st, URL) ==
    [url |-> Str(URL), referrer |-> URL, navigationStart |-> Num(0),
     sent |-> Append(st.sent, SetPageLocation(URL, st.referrer, st.navigationStart))]

\* sendSetPageLocation (part_004:10-18); URL is document.URL.
sendSetPageLocation(st, URL) ==
    IF Str(URL) # st.url
    THEN [url |-> Str(URL), referrer |-> URL, navigationStart |-> Num(0),
          sent |-> Append(st.sent, SetPageLocation(URL, st.referrer, st.navigationStart))]
    ELSE st

\* sendSetPageLocation called times times in a row: once by each wrapper as
\* the nested calls of history.pushState return (part_004:46-58), or once by
\* each popstate listener (part_004:61).
RECURSIVE sendSetPageLocationTimes(_, _, _)
sendSetPageLocationTimes(times, st, URL) ==
    IF times = 0 THEN st
    ELSE sendSetPageLocation(sendSetPageLocationTimes(times - 1, st, URL), URL)

\* getTimeOrigin() (part_004:36): the time the page was loaded.
getTimeOrigin == 1700000000

MaxStarts == 3
MaxPageMessages == 5

PageUrls ==
    { "https://app.example.com/", "https://app.example.com/a", "https://app.example.com/b" }

\* document.referrer: none, or the page the visitor came from.
DocumentReferrers == { "", "https://www.google.com/" }

\* The module after construction (part_004:6-8).
PageInstalled(referrers, urls) ==
    /\ documentURL \in urls
    /\ pageUrl = Undefined
    /\ referrer \in referrers
    /\ navigationStart = Undefined
    /\ historyWrappers = 0
    /\ popstateListeners = 0
    /\ sessionStarts = <<>>

\* The closure variables take the values of st.
PageBecomes(st) ==
    /\ pageUrl' = st.url
    /\ referrer' = st.referrer
    /\ navigationStart' = st.navigationStart
    /\ sent' = st.sent

\* The start callback (part_004:34-62).
PageStart ==
    /\ Len(sessionStarts) < MaxStarts
    /\ Len(sent) < MaxPageMessages
    /\ active' = TRUE
    /\ PageBecomes(sendSetPageLocation(
           [PageState EXCEPT !.url = Null, !.navigationStart = Num(getTimeOrigin)],
           documentURL))
    /\ historyWrappers' = historyWrappers + 1
    /\ popstateListeners' = popstateListeners + 1
    /\ sessionStarts' = Append(sessionStarts, Len(sent))
    /\ UNCHANGED <<documentURL, sanitizerVars, consoleVars>>

\* The ticker calls sendSetPageLocation while the app runs (part_004:74).
PageTick ==
    /\ active
    /\ PageBecomes(sendSetPageLocation(PageState, documentURL))
    /\ UNCHANGED <<documentURL, historyWrappers, popstateListeners, sessionStarts,
                   active, sanitizerVars, consoleVars>>

\* The page calls history.pushState with the URL u: the original function
\* sets document.URL, then each wrapper around it calls sendSetPageLocation
\* (part_004:46-51).
PushState(u) ==
    /\ Len(sent) < MaxPageMessages
    /\ documentURL' = u
    /\ PageBecomes(sendSetPageLocationTimes(historyWrappers, PageState, u))
    /\ UNCHANGED <<historyWrappers, popstateListeners, sessionStarts,
                   active, sanitizerVars, consoleVars>>

\* The page calls history.replaceState with the URL u (part_004:53-58).
ReplaceState(u) ==
    /\ Len(sent) < MaxPageMessages
    /\ documentURL' = u
    /\ PageBecomes(sendSetPageLocationTimes(historyWrappers, PageState, u))
    /\ UNCHANGED <<historyWrappers, popstateListeners, sessionStarts,
                   active, sanitizerVars, consoleVars>>

\* The visitor goes back or forward to the URL u: document.URL changes and
\* the popstate listeners are called (part_004:61).
PopState(u) ==
    /\ Len(sent) < MaxPageMessages
    /\ documentURL' = u
    /\ PageBecomes(sendSetPageLocationTimes(popstateListeners, PageState, u))
    /\ UNCHANGED <<historyWrappers, popstateListeners, sessionStarts,
                   active, sanitizerVars, consoleVars>>

\* No sanitizer is in use.
SanitizerIdle ==
    /\ window = [defined |-> FALSE, hostname |-> ""]
    /\ sanitizer = [builder |-> "debug", options |-> NoOptions]
    /\ config = NoOptions
    /\ passed = NoEvent
    /\ data = NoEvent
    /\ result = NoResult
    /\ caller = 0

\* The console module is installed and the app never starts.
ConsoleIdle == ConsoleInstalled({NoOptions}) /\ active = FALSE /\ sent = <<>>

Built(builds) ==
    /\ window \in Windows
    /\ sanitizer \in builds
    /\ config = IF sanitizer.builder = "debug" THEN NoOptions
                ELSE createConfig(OptionsOf(sanitizer), window)
    /\ passed = NoEvent
    /\ data = NoEvent
    /\ result = NoResult
    /\ caller = 0
    /\ ConsoleIdle
    /\ PageInstalled({""}, {"https://app.example.com/"})

Init == Built(Builds)

\* The call sanitizer(d) by caller c and everything it leaves behind; r is what
\* the call did.
Apply(c, d) ==
    \E r \in {Invoke(sanitizer.builder, config, d)} :
        /\ passed' = d
        /\ data' = r.data
        /\ result' = [outcome |-> r.outcome, value |-> r.value, rule |-> r.rule]
        /\ config' = r.config
        /\ caller' = c
        /\ UNCHANGED <<window, sanitizer, consoleVars, pageVars, active, sent>>

\* A caller hands a new event to the sanitizer.
Call(c) ==
    /\ result.outcome = "none"
    /\ \E e \in EventsFor(sanitizer) : Apply(c, e)

\* The caller of the last call hands the same event to the sanitizer once more.
Repeat ==
    /\ result.outcome # "none"
    /\ Apply(caller, data)

\* The caller takes the verdict of the last call; the event is gone.
Deliver ==
    /\ result.outcome # "none"
    /\ passed' = NoEvent
    /\ data' = NoEvent
    /\ result' = NoResult
    /\ caller' = 0
    /\ UNCHANGED <<window, sanitizer, config, consoleVars, pageVars, active, sent>>

Next ==
    \/ \E c \in Callers : Call(c)
    \/ Repeat
    \/ Deliver

Spec == Init /\ [][Next]_vars

\* The sanitizers of createCustomSanitizer.
InitCustom == Built(CustomBuilds)

SpecCustom == InitCustom /\ [][Next]_vars

\* The sanitizers called with the URLs of EdgeUrls.
InitEdge == Built(EdgeBuilds)

SpecEdge == InitEdge /\ [][Next]_vars

\* The console module of a running app.
InitConsole ==
    /\ SanitizerIdle
    /\ ConsoleInstalled(ConsoleOpts)
    /\ PageInstalled({""}, {"https://app.example.com/"})
    /\ active = FALSE
    /\ sent = <<>>

NextConsole ==
    \/ ConsoleStart
    \/ ConsoleTick
    \/ \E call \in ConsoleCalls : ConsoleCall(call)
    \/ ConsoleStop

SpecConsole == InitConsole /\ [][NextConsole]_vars

\* The page-location module of an app that is started, and started again.
InitPage ==
    /\ SanitizerIdle
    /\ ConsoleIdle
    /\ PageInstalled(DocumentReferrers, PageUrls)

NextPage ==
    \/ PageStart
    \/ PageTick
    \/ \E u \in PageUrls : PushState(u)
    \/ \E u \in PageUrls : ReplaceState(u)
    \/ \E u \in PageUrls : PopState(u)

SpecPage == InitPage /\ [][NextPage]_vars

(***************************************************************************)
(* What the claims speak about, read off the state.                        *)
(***************************************************************************)
Called == result.outcome # "none"

\* The closure was built by createSmartSanitizer (directly or by a preset).
Smart == sanitizer.builder # "debug"

\* The call returned an object, returned null, raised.
Kept == result.outcome = "return" /\ result.value # "null"
Dropped == result.outcome = "return" /\ result.value = "null"
Raised == result.outcome = "throw"

\* The duration value of an event: its x-response-time response header read as
\* a decimal integer.  An event without that header has no duration value.
HasDuration(e) ==
    /\ e.response.t = "object"
    /\ "x-response-time" \in DOMAIN e.response.headers
    /\ parseInt(e.response.headers["x-response-time"]).t = "number"

DurationOf(e) == parseInt(e.response.headers["x-response-time"]).n

\* status >= errorStatusThreshold
Failing(e) == e.status.t = "number" /\ e.status.n >= config.errorStatusThreshold

\* The duration value exceeds slowRequestThreshold.
ExceedsSlowThreshold(e) == HasDuration(e) /\ DurationOf(e) > config.slowRequestThreshold

\* Rule 2 as the code tests it: the duration is positive and exceeds the threshold.
Slow(e) == ExceedsSlowThreshold(e) /\ DurationOf(e) > 0

\* The URL ends with a configured ignored extension.
StaticUrl(e) ==
    LET lowerUrl == toLowerCase(e.url)
    IN  \E k \in 1..Len(config.ignoredExtensions) :
            EndsWith(lowerUrl, config.ignoredExtensions[k])

\* The hostname or the URL matches an entry of ignoredDomains.
OnIgnoredDomain(e) ==
    LET lowerUrl == toLowerCase(e.url)
        hostname == getHostname(e.url)
    IN  \E k \in 1..Len(config.ignoredDomains) :
            \/ Includes(hostname, config.ignoredDomains[k])
            \/ Includes(lowerUrl, config.ignoredDomains[k])

\* The method, upper-cased, is not GET, HEAD or OPTIONS; an absent method matches nothing.
Mutation(e) ==
    e.method.t = "string" /\ toUpperCase(e.method.s) \notin {"GET", "HEAD", "OPTIONS"}

\* The hostname contains an entry of ownDomains.
OnOwnDomain(e) ==
    LET hostname == getHostname(e.url)
    IN  \E k \in 1..Len(config.ownDomains) : Includes(hostname, config.ownDomains[k])

\* The config object of a closure freshly built from the same options.
FreshConfig == createConfig(OptionsOf(sanitizer), window)

\* The URL matches an entry of apiPatterns (a RegExp searched from the start).
MatchesApi(e) == matchesPattern(e.url, FreshConfig.apiPatterns).found

\* customFilter is present and returns true.
FilterAccepts(e) ==
    config.customFilter.kind \in {"includes", "excludes"}
    /\ CallFilter(config.customFilter, e) = "true"

(***************************************************************************)
(* C1.  Failure override: with a sanitizer built by createSmartSanitizer,  *)
(* whatever the configuration, an event whose status is at least           *)
(* errorStatusThreshold is kept, also when its URL ends in an ignored      *)
(* extension or is on an ignored domain.                                   *)
(***************************************************************************)
C1_FailureOverride == (Called /\ Smart /\ Failing(passed)) => Kept

\* A failing request on an ignored domain was classified.
C1_Witness ==
    Called /\ Smart /\ Failing(passed) /\ OnIgnoredDomain(passed) /\ result.rule = 1

(***************************************************************************)
(* C2.  The verdict is that of the fixed chain: Keep if and only if        *)
(* R1 or R2 or (not R3 and not R4 and (R5 or R6 or R7 or R8)), with        *)
(* R2 = the duration exceeds slowRequestThreshold, and Drop otherwise.     *)
(***************************************************************************)
ChainKeeps(e) ==
    \/ Failing(e)
    \/ ExceedsSlowThreshold(e)
    \/ /\ ~StaticUrl(e)
       /\ ~OnIgnoredDomain(e)
       /\ MatchesApi(e) \/ Mutation(e) \/ OnOwnDomain(e) \/ FilterAccepts(e)

C2_ChainVerdict ==
    (Called /\ Smart) =>
        /\ Kept <=> ChainKeeps(passed)
        /\ Dropped <=> ~ChainKeeps(passed)

(***************************************************************************)
(* C3.  Rule 3 is terminal: when rules 1 and 2 do not fire, an event whose *)
(* URL ends in a configured ignored extension is dropped, whatever its     *)
(* method, the API patterns, the own domains and the custom filter; such   *)
(* an event is kept only by rule 1 or rule 2.                              *)
(***************************************************************************)
C3_StaticTerminal ==
    (Called /\ Smart /\ StaticUrl(passed)) =>
        /\ (~Failing(passed) /\ ~Slow(passed)) => Dropped
        /\ Kept => (Failing(passed) \/ Slow(passed))

\* A static URL sent with a mutation method was dropped by rule 3.
C3_Witness ==
    /\ Called /\ Smart /\ StaticUrl(passed) /\ Mutation(passed)
    /\ ~Failing(passed) /\ ~Slow(passed)
    /\ Dropped /\ result.rule = 3

(***************************************************************************)
(* C4.  Rule 4 is terminal over the capture rules: when rules 1, 2 and 3   *)
(* do not fire, an event whose hostname or URL matches an entry of         *)
(* ignoredDomains is dropped, also when it is a mutation, matches an API   *)
(* pattern, is on an own domain or is accepted by the custom filter.       *)
(***************************************************************************)
C4_IgnoredDomainTerminal ==
    ( /\ Called /\ Smart
      /\ ~Failing(passed) /\ ~Slow(passed) /\ ~StaticUrl(passed)
      /\ OnIgnoredDomain(passed) ) => Dropped

\* A mutation to an ignored domain was dropped by rule 4.
C4_Witness ==
    /\ Called /\ Smart /\ OnIgnoredDomain(passed) /\ Mutation(passed)
    /\ ~Failing(passed) /\ ~Slow(passed) /\ ~StaticUrl(passed)
    /\ Dropped /\ result.rule = 4

(***************************************************************************)
(* C5.  As claimed: the verdict for every event whose duration value       *)
(* exceeds slowRequestThreshold is Keep.                                   *)
(***************************************************************************)
C5_SlowAlwaysKept ==
    (Called /\ Smart /\ ~Raised /\ ExceedsSlowThreshold(passed)) => Kept

(***************************************************************************)
(* C5, amended.  Every event whose duration value is positive and exceeds  *)
(* slowRequestThreshold is kept, also when its status is below the error   *)
(* threshold and its URL is a static resource or on an ignored domain.     *)
(***************************************************************************)
C5_PositiveSlowKept == (Called /\ Smart /\ Slow(passed)) => Kept

\* A slow, non-failing request for a static resource was kept by rule 2.
C5_Witness ==
    /\ Called /\ Smart /\ Slow(passed) /\ ~Failing(passed) /\ StaticUrl(passed)
    /\ Kept /\ result.rule = 2

(***************************************************************************)
(* C6.  Classification is idempotent: when the same sanitizer is called    *)
(* twice with the same event, one call after the other, and both calls     *)
(* return, they return the same verdict, also with RegExp entries in       *)
(* apiPatterns.                                                            *)
(***************************************************************************)
C6_Idempotent ==
    [][ ( /\ Smart /\ result.outcome = "return"
          /\ result'.outcome = "return" /\ passed' = passed )
            => result'.value = result.value ]_vars

(***************************************************************************)
(* C7.  The sanitizer holds no state between calls: whatever calls the     *)
(* callers sharing it made before, the verdict a call returns for an       *)
(* event is the verdict a freshly built sanitizer of the same              *)
(* configuration returns for that event alone.                             *)
(***************************************************************************)
VerdictAlone(e) == smartSanitizer(FreshConfig, e)

C7_VerdictOfFreshSanitizer ==
    (Smart /\ result.outcome = "return" /\ VerdictAlone(passed).outcome = "return")
        => result.value = VerdictAlone(passed).value

(***************************************************************************)
(* C8.  The sanitizer never raises: for every event, also with an          *)
(* unparsable or relative URL, a missing status or a missing method, the   *)
(* call returns a verdict.  (A customFilter that raises is the caller's    *)
(* own fault and is left out.)                                             *)
(***************************************************************************)
C8_NeverRaises ==
    (Called /\ Smart /\ config.customFilter.kind # "throws") => ~Raised

(***************************************************************************)
(* C9.  The sanitizer never mutates the event: after a call every field of *)
(* the event is as it was passed in, and a Keep verdict is the very object *)
(* that was passed in.                                                     *)
(***************************************************************************)
C9_EventUntouched ==
    Called => /\ data = passed
              /\ Kept => result.value = "data"

\* An event was kept by the rule chain.
C9_Witness == Called /\ Smart /\ Kept /\ result.rule \in 1..8 /\ data = passed

(***************************************************************************)
(* C10.  The strict preset keeps only failures and very slow requests:     *)
(* every event it keeps has status >= 400 or a duration above 5000 ms,     *)
(* its verdict for every other event is Drop, and it keeps every           *)
(* status-500 request.                                                     *)
(***************************************************************************)
Critical(e) ==
    \/ e.status.t = "number" /\ e.status.n >= 400
    \/ HasDuration(e) /\ DurationOf(e) > 5000

C10_StrictOnlyCritical ==
    (Called /\ sanitizer.builder = "strict" /\ ~Raised) =>
        /\ Kept <=> Critical(passed)
        /\ (passed.status = Num(500)) => Kept

(***************************************************************************)
(* C11.  The debug preset keeps everything: whatever the URL, the method,  *)
(* the status and the headers of an event, SmartSanitizerPresets.debug()   *)
(* returns that same event, never null, and does not raise.                *)
(***************************************************************************)
C11_DebugKeepsAll ==
    (Called /\ sanitizer.builder = "debug") =>
        result.outcome = "return" /\ result.value = "data" /\ data = passed

\* debug kept a non-failing request for a static resource whose method is missing.
C11_Witness ==
    /\ Called /\ sanitizer.builder = "debug" /\ Kept
    /\ EndsWith(passed.url, ".js") /\ passed.status = Num(200)
    /\ passed.method = Undefined

(***************************************************************************)
(* C12.  The balanced preset is the default configuration: for every       *)
(* event, SmartSanitizerPresets.balanced() does what createSmartSanitizer  *)
(* called with no options does in the same page environment.  So a         *)
(* status-200 request to .../api/users is kept, and a status-200 request   *)
(* to .../app.js that is not slow is dropped.                              *)
(***************************************************************************)
\* What a call did, without the objects it left behind.
VerdictOf(r) == [outcome |-> r.outcome, value |-> r.value, rule |-> r.rule]

DefaultConfig == createConfig(NoOptions, window)

C12_BalancedIsDefault ==
    (Called /\ sanitizer.builder = "balanced") =>
        /\ config = DefaultConfig
        /\ result = VerdictOf(smartSanitizer(DefaultConfig, passed))
        /\ (passed.status = Num(200) /\ EndsWith(passed.url, "/api/users")) => Kept
        /\ (passed.status = Num(200) /\ EndsWith(passed.url, "/app.js") /\ ~Slow(passed))
              => Dropped

\* balanced kept a status-200 GET to https://example.com/api/users by rule 5.
C12_Witness ==
    /\ Called /\ sanitizer.builder = "balanced"
    /\ passed.url = "https://example.com/api/users" /\ passed.status = Num(200)
    /\ passed.method = Str("GET") /\ Kept /\ result.rule = 5

(***************************************************************************)
(* C13.  As claimed: with the verbose preset rule 4 never fires, and a     *)
(* non-failing request to a third-party host of the default ignored list   *)
(* is kept.                                                                *)
(***************************************************************************)
\* The hostname or the URL matches an entry of the default ignored domains.
ThirdParty(e) ==
    LET lowerUrl == toLowerCase(e.url)
        hostname == getHostname(e.url)
    IN  \E k \in 1..Len(DEFAULT_IGNORED_DOMAINS) :
            \/ Includes(hostname, DEFAULT_IGNORED_DOMAINS[k])
            \/ Includes(lowerUrl, DEFAULT_IGNORED_DOMAINS[k])

C15_OwnDomainKept ==
    ( /\ Called /\ Smart /\ OnOwnDomain(passed)
      /\ ~StaticUrl(passed) /\ ~OnIgnoredDomain(passed) ) => Kept

(***************************************************************************)
(* C16.  A customFilter that returns false never forces a drop: when the   *)
(* filter of a sanitizer returns false for the event of a call, the call   *)
(* does what it would do with the same configuration and no customFilter   *)
(* (the event is dropped only if no earlier rule kept it).                 *)
(***************************************************************************)
WithoutFilter(cfg) == [cfg EXCEPT !.customFilter = NoFilter]

Custom == sanitizer.builder = "createCustomSanitizer"

\* The part of an intent, or the engine default when it is absent.
PartOr(intent, obj, part, default) ==
    IF obj \in DOMAIN intent /\ part \in DOMAIN intent[obj] THEN intent[obj][part] ELSE default

TranslationOf(intent, win) ==
    [ slowRequestThreshold |-> DEFAULT_SLOW_REQUEST_THRESHOLD,
      errorStatusThreshold |-> DEFAULT_ERROR_STATUS_THRESHOLD,
      ignoredDomains |-> PartOr(intent, "ignore", "domains", DEFAULT_IGNORED_DOMAINS),
      apiPatterns |-> PartOr(intent, "captureOnly", "patterns", DEFAULT_API_PATTERNS),
      ignoredExtensions |-> DEFAULT_IGNORED_EXTENSIONS,
      ownDomains |-> PartOr(intent, "captureOnly", "domains",
                            IF win.defined THEN <<win.hostname>> ELSE <<>>),
      customFilter |-> IF "ignore" \in DOMAIN intent /\ "patterns" \in DOMAIN intent.ignore
                       THEN FilterIgnores(intent.ignore.patterns) ELSE NoFilter ]

\* The patterns as they were written: every RegExp with lastIndex 0.
AsWritten(patterns) ==
    [k \in 1..Len(patterns) |->
        IF patterns[k].type = "regexp" THEN [patterns[k] EXCEPT !.lastIndex = 0]
        ELSE patterns[k]]

\* The config object as it was built.
AsBuilt(cfg) ==
    [cfg EXCEPT !.apiPatterns = AsWritten(@),
                !.customFilter = IF @.kind = "ignores"
                                 THEN [@ EXCEPT !.patterns = AsWritten(@)] ELSE @]

C17_CustomIsTranslation ==
    [][ (Custom /\ result'.outcome # "none") =>
          LET translated == TranslationOf(sanitizer.options, window)
          IN  /\ AsBuilt(config') = translated
              /\ (config = translated)
                    => result' = VerdictOf(smartSanitizer(translated, passed')) ]_vars

\* A sanitizer built from captureOnly.domains and ignore.patterns kept an event
\* of a listed domain by rule 7.
C17_Witness ==
    /\ Called /\ Custom
    /\ HasPart(sanitizer.options, "captureOnly", "domains")
    /\ HasPart(sanitizer.options, "ignore", "patterns")
    /\ Kept /\ result.rule = 7

(***************************************************************************)
(* C18.  With createCustomSanitizer, a non-failing request whose URL       *)
(* matches one of ignore.patterns is dropped, also when it goes to a       *)
(* domain of captureOnly.domains or matches captureOnly.patterns.  Stated  *)
(* here for intents with a captureOnly part and GET requests that are not  *)
(* slow.                                                                   *)
(***************************************************************************)
\* The URL matches one of ignore.patterns (a RegExp searched from the start).
MatchesIgnore(e) ==
    /\ HasPart(sanitizer.options, "ignore", "patterns")
    /\ matchesPattern(e.url, sanitizer.options.ignore.patterns).found

C18_IgnorePatternDropped ==
    ( /\ Called /\ Custom /\ MatchesIgnore(passed)
      /\ "captureOnly" \in DOMAIN sanitizer.options
      /\ passed.method = Str("GET") /\ ~Failing(passed) /\ ~Slow(passed) ) => Dropped

(***************************************************************************)
(* C19.  With createCustomSanitizer configured with captureOnly.domains    *)
(* only, only the listed domains are captured: every non-failing, non-slow *)
(* GET request whose hostname contains none of the listed domains is       *)
(* dropped.                                                                *)
(***************************************************************************)
CaptureDomainsOnly ==
    /\ DOMAIN sanitizer.options = {"captureOnly"}
    /\ DOMAIN sanitizer.options.captureOnly = {"domains"}

C19_OnlyListedDomains ==
    ( /\ Called /\ Custom /\ CaptureDomainsOnly
      /\ passed.method = Str("GET") /\ ~Failing(passed) /\ ~Slow(passed)
      /\ ~OnOwnDomain(passed) ) => Dropped

(***************************************************************************)
(* C20.  Building a configuration fills every option that is not set with  *)
(* its documented default (slow threshold 2000, error threshold 400, the   *)
(* default ignored domains, API patterns and extensions, ownDomains = the  *)
(* page hostname, or empty when there is no window) and uses every         *)
(* supplied value as it is: an empty list disables its rule (with          *)
(* apiPatterns = [] rule 5 never fires, with ignoredDomains = [] rule 4    *)
(* never fires).                                                           *)
(***************************************************************************)
Supplied(field) == field \in DOMAIN sanitizer.options

SuppliedOr(field, default) ==
    IF Supplied(field) THEN sanitizer.options[field] ELSE default

SuppliedEmpty(field) == Supplied(field) /\ Len(sanitizer.options[field]) = 0

C21_NegativeNeverTriggers ==
    (Called /\ Smart /\ config.slowRequestThreshold < 0) => result.rule # 2

(***************************************************************************)
(* C21, amended.  A negative slowRequestThreshold is used as it is and     *)
(* makes rule 2 trigger for every positive duration value: with            *)
(* slowRequestThreshold < 0 an event that rule 1 does not keep is kept by  *)
(* the slow-request rule exactly when its duration value is greater        *)
(* than 0.                                                                 *)
(***************************************************************************)
C21_NegativeKeepsPositive ==
    (Called /\ Smart /\ config.slowRequestThreshold < 0 /\ ~Failing(passed)) =>
        (Kept /\ result.rule = 2) <=> (HasDuration(passed) /\ DurationOf(passed) > 0)

\* With a negative threshold, a request of duration 3000 was kept by rule 2 and
\* the threshold is the one supplied.
C21_Witness ==
    /\ Called /\ Smart /\ config.slowRequestThreshold < 0
    /\ Supplied("slowRequestThreshold")
    /\ config.slowRequestThreshold = sanitizer.options.slowRequestThreshold
    /\ ~Failing(passed) /\ HasDuration(passed) /\ DurationOf(passed) = 3000
    /\ Kept /\ result.rule = 2

(***************************************************************************)
(* C22.  As claimed: an event with status equal to errorStatusThreshold is *)
(* kept by rule 1 and one with status one below it is not; an event whose  *)
(* duration equals slowRequestThreshold is not kept by rule 2, while one   *)
(* of duration threshold + 1 is.  Stated for the calls that return.        *)
(***************************************************************************)
StatusIs(e, n) == e.status.t = "number" /\ e.status.n = n
DurationIs(e, n) == HasDuration(e) /\ DurationOf(e) = n

C22_Boundaries ==
    (Called /\ Smart /\ ~Raised) =>
        /\ StatusIs(passed, config.errorStatusThreshold) => (Kept /\ result.rule = 1)
        /\ StatusIs(passed, config.errorStatusThreshold - 1) => result.rule # 1
        /\ DurationIs(passed, config.slowRequestThreshold) => result.rule # 2
        /\ (~Failing(passed) /\ DurationIs(passed, config.slowRequestThreshold + 1))
              => (Kept /\ result.rule = 2)

(***************************************************************************)
(* C22, amended.  The same, with the duration threshold + 1 kept by rule 2 *)
(* when it is greater than 0.                                              *)
(***************************************************************************)
C22_BoundariesPositive ==
    (Called /\ Smart) =>
        /\ StatusIs(passed, config.errorStatusThreshold) => (Kept /\ result.rule = 1)
        /\ StatusIs(passed, config.errorStatusThreshold - 1) => result.rule # 1
        /\ DurationIs(passed, config.slowRequestThreshold) => result.rule # 2
        /\ ( /\ ~Failing(passed)
             /\ DurationIs(passed, config.slowRequestThreshold + 1)
             /\ DurationOf(passed) > 0 ) => (Kept /\ result.rule = 2)

\* A non-failing request whose duration is the threshold plus one was kept by rule 2.
C22_Witness ==
    /\ Called /\ Smart /\ ~Failing(passed)
    /\ DurationIs(passed, config.slowRequestThreshold + 1)
    /\ Kept /\ result.rule = 2

(***************************************************************************)
(* C23.  A fault in customFilter propagates, and only where the filter is  *)
(* consulted: a call raises if and only if none of rules 1 to 7 decides    *)
(* the event and customFilter raises for it.                               *)
(***************************************************************************)
DecidedByRules1To7(e) ==
    \/ Failing(e) \/ Slow(e)
    \/ StaticUrl(e) \/ OnIgnoredDomain(e)
    \/ MatchesApi(e) \/ Mutation(e) \/ OnOwnDomain(e)

C23_RaisesOnlyByFilter ==
    (Called /\ Smart) =>
        (Raised <=> (~DecidedByRules1To7(passed) /\ config.customFilter.kind = "throws"))

(***************************************************************************)
(* C24.  As claimed: for a relative or unparsable URL the hostname is the  *)
(* empty string and the rules fall back to the raw URL: when rules 1 to 3  *)
(* do not fire, a URL containing an ignored domain is dropped by rule 4,   *)
(* otherwise one containing an API pattern is kept by rule 5, otherwise    *)
(* one that is no mutation and contains an own domain is kept by rule 7.   *)
(* Stated for the calls that return.                                       *)
(***************************************************************************)
\* The URL has no scheme: new URL(url) throws.
Relative(e) == UrlScheme(e.url) = ""

\* The lower-cased URL contains an entry of the list.
UrlContains(e, domains) ==
    LET lowerUrl == toLowerCase(e.url)
    IN  \E k \in 1..Len(domains) : Includes(lowerUrl, domains[k])

\* The lower-cased URL contains a literal API pattern.
UrlContainsApi(e) ==
    LET lowerUrl == toLowerCase(e.url)
    IN  \E k \in 1..Len(config.apiPatterns) :
            /\ config.apiPatterns[k].type = "string"
            /\ Includes(lowerUrl, toLowerCase(config.apiPatterns[k].source))

\* A relative URL that rules 1 to 3 leave to the later rules.
RelativeForLaterRules ==
    /\ Called /\ Smart /\ Relative(passed)
    /\ ~Failing(passed) /\ ~Slow(passed) /\ ~StaticUrl(passed)

C24_RelativeFallsBack ==
    (RelativeForLaterRules /\ ~Raised) =>
        /\ getHostname(passed.url) = ""
        /\ UrlContains(passed, config.ignoredDomains) => (Dropped /\ result.rule = 4)
        /\ (~UrlContains(passed, config.ignoredDomains) /\ UrlContainsApi(passed))
              => (Kept /\ result.rule = 5)
        /\ ( /\ ~UrlContains(passed, config.ignoredDomains) /\ ~UrlContainsApi(passed)
             /\ ~Mutation(passed)
             /\ UrlContains(passed, config.ownDomains) ) => (Kept /\ result.rule = 7)

(***************************************************************************)
(* C24, amended.  For a relative or unparsable URL the hostname is the     *)
(* empty string; rules 4 and 5 match on the raw URL, so a URL containing   *)
(* an ignored domain is dropped by rule 4 and otherwise one containing an  *)
(* API pattern is kept by rule 5; rule 7 tests the hostname alone, so such *)
(* a URL is never kept by rule 7, also when it contains an own domain      *)
(* (own domains being non-empty strings).                                  *)
(***************************************************************************)
C24_RelativeOwnDomainUnmatched ==
    RelativeForLaterRules =>
        /\ getHostname(passed.url) = ""
        /\ UrlContains(passed, config.ignoredDomains) => (Dropped /\ result.rule = 4)
        /\ (~UrlContains(passed, config.ignoredDomains) /\ UrlContainsApi(passed))
              => (Kept /\ result.rule = 5)
        /\ (\A k \in 1..Len(config.ownDomains) : config.ownDomains[k] # "")
              => result.rule # 7

\* A GET for a URL without scheme that contains an own domain reached the
\* default rule and was dropped.
C24_Witness ==
    /\ RelativeForLaterRules
    /\ UrlContains(passed, config.ownDomains) /\ passed.method = Str("GET")
    /\ Dropped /\ result.rule = 9

(***************************************************************************)
(* C25.  As claimed: an event that rules 1 and 2 do not keep is dropped by *)
(* rule 3 exactly when the path of its URL (the URL up to the query string *)
(* or fragment) ends with a suffix of ignoredExtensions, letter case       *)
(* mattering neither in the URL nor in the configured suffix.  Stated for   *)
(* the calls that return.                                                  *)
(***************************************************************************)
\* The URL without its query string and fragment.
PathPart(url) == UpTo(url, {"?", "#"})

PathEndsWithExtension(e) ==
    LET lowerPath == toLowerCase(PathPart(e.url))
    IN  \E k \in 1..Len(config.ignoredExtensions) :
            EndsWith(lowerPath, toLowerCase(config.ignoredExtensions[k]))

C25_PathSuffixDropped ==
    (Called /\ Smart /\ ~Raised /\ ~Failing(passed) /\ ~Slow(passed)) =>
        ((Dropped /\ result.rule = 3) <=> PathEndsWithExtension(passed))

(***************************************************************************)
(* C26.  The presets are nested by what they keep: in one page             *)
(* environment, an event kept by strict is kept by balanced, an event kept *)
(* by balanced is kept by verbose, and an event kept by verbose is kept by *)
(* debug.                                                                  *)
(***************************************************************************)
\* The closure SmartSanitizerPresets[name]() builds in this window keeps e.
KeptByPreset(name, e) ==
    LET options == CASE name = "strict" -> StrictOptions
                     [] name = "balanced" -> BalancedOptions
                     [] name = "verbose" -> VerboseOptions
                     [] OTHER -> NoOptions
        cfg == IF name = "debug" THEN NoOptions ELSE createConfig(options, window)
        r == Invoke(name, cfg, e)
    IN  r.outcome = "return" /\ r.value # "null"

C26_PresetsNested ==
    (Called /\ Kept) =>
        /\ sanitizer.builder = "strict" => KeptByPreset("balanced", passed)
        /\ sanitizer.builder = "balanced" => KeptByPreset("verbose", passed)
        /\ sanitizer.builder = "verbose" => KeptByPreset("debug", passed)

\* balanced kept a request by rule 5 that strict, in the same window, drops.
C26_Witness ==
    /\ Called /\ sanitizer.builder = "balanced" /\ Kept /\ result.rule = 5
    /\ ~KeptByPreset("strict", passed) /\ KeptByPreset("verbose", passed)

(***************************************************************************)
(* C27.  Rule 4 matches an ignored-domain entry anywhere in the lower-     *)
(* cased URL: a non-failing, non-slow request to an own domain or an API   *)
(* endpoint whose hostname holds no ignored-domain entry but whose path or *)
(* query string does is dropped, by rule 4 unless rule 3 dropped it.       *)
(***************************************************************************)
\* An ignored-domain entry occurs in the URL but not in its hostname.
IgnoredOutsideHostname(e) ==
    LET hostname == getHostname(e.url)
    IN  /\ UrlContains(e, config.ignoredDomains)
        /\ \A k \in 1..Len(config.ignoredDomains) :
               ~Includes(hostname, config.ignoredDomains[k])

C27_FirstPartyLostToRule4 ==
    ( /\ Called /\ Smart
      /\ ~Failing(passed) /\ ~Slow(passed)
      /\ OnOwnDomain(passed) \/ MatchesApi(passed)
      /\ IgnoredOutsideHostname(passed) )
        => (Dropped /\ (~StaticUrl(passed) => result.rule = 4))

\* A status-200 GET to an API path of an own domain, with facebook.net in its
\* query string only, was dropped by rule 4.
C27_Witness ==
    /\ Called /\ Smart
    /\ passed.url = "https://api.myapp.com/api/redirect?to=facebook.net"
    /\ passed.method = Str("GET") /\ passed.status = Num(200)
    /\ OnOwnDomain(passed) /\ MatchesApi(passed) /\ IgnoredOutsideHostname(passed)
    /\ Dropped /\ result.rule = 4

(***************************************************************************)
(* C28.  As claimed: supplying ignore.patterns to createCustomSanitizer    *)
(* never enlarges the kept set: an event dropped by the sanitizer built    *)
(* from an intent without its ignore.patterns is also dropped by the       *)
(* sanitizer built from the intent with them.                              *)
(***************************************************************************)
\* The intent with ignore.patterns left out.
WithoutIgnorePatterns(intent) ==
    IF ~HasPart(intent, "ignore", "patterns") THEN intent
    ELSE [o \in DOMAIN intent |->
            IF o = "ignore"
            THEN [f \in DOMAIN intent.ignore \ {"patterns"} |-> intent.ignore[f]]
            ELSE intent[o]]

\* The sanitizer createCustomSanitizer builds from the intent in this window drops e.
DroppedByCustom(intent, e) ==
    LET r == smartSanitizer(createConfig(createCustomSanitizerOptions(intent), window), e)
    IN  r.outcome = "return" /\ r.value = "null"

C28_IgnorePatternsOnlyShrink ==
    ( /\ Called /\ Custom
      /\ HasPart(sanitizer.options, "ignore", "patterns")
      /\ DroppedByCustom(WithoutIgnorePatterns(sanitizer.options), passed) ) => Dropped

(***************************************************************************)
(* C29.  As claimed: console capture loses no accepted log.  The messages  *)
(* sent are, in call order, one message for each run of consecutive        *)
(* accepted calls with the same level and message between two flushes,     *)
(* prefixed <nl>N</nl> for a run of N > 1 calls; and once the stop         *)
(* callback has run, the run lengths of the messages sent add up to the    *)
(* number of accepted calls, the empty message included, and no log is     *)
(* left pending.                                                           *)
(***************************************************************************)
\* The runs of the history h from entry i on: out holds the runs that are
\* closed, pending the run that is open (none: <<>>).
RECURSIVE RunsFrom(_, _, _, _)
RunsFrom(h, i, pending, out) ==
    IF i > Len(h) THEN [out |-> out, pending |-> pending]
    ELSE IF h[i].kind = "flush" THEN RunsFrom(h, i + 1, <<>>, out \o pending)
    ELSE IF /\ pending # <<>>
            /\ pending[1].level = h[i].level /\ pending[1].message = h[i].message
    THEN RunsFrom(h, i + 1, <<[pending[1] EXCEPT !.count = @ + 1]>>, out)
    ELSE RunsFrom(h, i + 1,
                  <<[level |-> h[i].level, message |-> h[i].message, count |-> 1]>>,
                  out \o pending)

Runs(h) == RunsFrom(h, 1, <<>>, <<>>)

\* The message of a run.
MessageOfRun(run) ==
    ConsoleLog(run.level,
               IF run.count > 1
               THEN "<nl>" \o ToString(run.count) \o "</nl>" \o run.message
               ELSE run.message)

\* The run length a sent message states.
RunLength(m) ==
    IF \E k \in 2..MaxConsoleCalls : StartsWith(m.value, "<nl>" \o ToString(k) \o "</nl>")
    THEN CHOOSE k \in 2..MaxConsoleCalls :
             StartsWith(m.value, "<nl>" \o ToString(k) \o "</nl>")
    ELSE 1

RECURSIVE SumOfRunLengths(_)
SumOfRunLengths(msgs) ==
    IF Len(msgs) = 0 THEN 0 ELSE RunLength(Head(msgs)) + SumOfRunLengths(Tail(msgs))

AcceptedCalls == Cardinality({i \in 1..Len(calls) : calls[i].kind = "call"})

C29_NoAcceptedLogLost ==
    LET runs == Runs(calls)
    IN  /\ sent = [i \in 1..Len(runs.out) |-> MessageOfRun(runs.out[i])]
        /\ ~active =>
              /\ SumOfRunLengths(sent) = AcceptedCalls
              /\ lastLogLevel = "" /\ lastLogMessage = "" /\ duplicateCount = 0

(***************************************************************************)
(* C30.  Page-location reporting sends exactly one SetPageLocation per URL *)
(* change: a step sends one message when it is a start or leaves           *)
(* document.URL different from the URL last sent, and none otherwise,      *)
(* however many wrappers are nested; two consecutive messages of a session *)
(* never carry the same URL; the referrer of each message after the first  *)
(* of a session is the URL of the message before it; and navigationStart   *)
(* is non-zero only in the first message after a start.                    *)
(***************************************************************************)
\* Message i is the first one sent after a start callback.
FirstOfSession(i) == \E k \in 1..Len(sessionStarts) : sessionStarts[k] = i - 1

PageMessagesInOrder ==
    /\ \A i \in 1..Len(sent) :
          /\ sent[i].navigationStart # Num(0) => FirstOfSession(i)
          /\ ~FirstOfSession(i) =>
                /\ sent[i].url # sent[i - 1].url
                /\ sent[i].referrer = sent[i - 1].url
    /\ active => (Len(sent) > 0 /\ sent[Len(sent)].url = documentURL)

\* The step sends a message exactly when it is a start or, the app running,
\* document.URL has become another URL than the one last sent.
OneMessagePerChange ==
    LET started == Len(sessionStarts') > Len(sessionStarts)
        changed == active /\ Len(sent) > 0 /\ documentURL' # sent[Len(sent)].url
    IN  IF started \/ changed
        THEN /\ Len(sent') = Len(sent) + 1
             /\ sent'[Len(sent')].url = documentURL'
        ELSE sent' = sent

C30_OneMessagePerUrlChange == []PageMessagesInOrder /\ [][OneMessagePerChange]_vars

\* In the second session or later, with the wrappers nested, a history call
\* has been reported by one message that is not the first of its session.
C30_Witness ==
    /\ Len(sessionStarts) >= 2 /\ historyWrappers >= 2
    /\ Len(sent) >= 3
    /\ ~FirstOfSession(Len(sent))
    /\ sent[Len(sent)].navigationStart = Num(0)
    /\ sent[Len(sent)].referrer = sent[Len(sent) - 1].url

====
